---- MODULE Spec2Model ----
(***************************************************************************)
(* Realtime chat backend (FastAPI): the connection registry                *)
(* (app/core/websocket_manager.py), the sliding-window rate limiter        *)
(* (app/core/rate_limiter.py) and the websocket session handler            *)
(* (app/api/websocket.py).                                                 *)
(*                                                                         *)
(* Time is an integer number of clock ticks, TicksPerSec ticks to the      *)
(* second; time.time() returns the current tick, so two calls can read the *)
(* same value.  The rate limiter's store is the synchronous client its     *)
(* constructor is annotated with (upstash_redis.Redis): inside one process *)
(* check_rate_limit has no suspension point and is one step; in two        *)
(* processes its four store commands interleave.                           *)
(***************************************************************************)
EXTENDS Integers, Sequences, FiniteSets, TLC

\* ---------------------------------------------------------------- bounds
TicksPerSec == 2
MaxTime == 21
MaxWinCalls == 6
MaxTimeConc == 5
MaxCalls == 2
MaxRecv == 1
MaxSends == 2
MaxRows == 4
MaxStamp == 3
MaxLimit == 2

\* ------------------------------------------------------ program constants
window_size == 5
max_requests == 5
MaxContent == 2000
WS_1008_POLICY_VIOLATION == 1008

W == window_size * TicksPerSec

Users == {"A", "B", "C"}
NoExpiry == -1
RLProcs == {"p1", "p2"}

Conns == {"a1", "a2", "b1", "c1"}
Owner(c) == CASE c \in {"a1", "a2"} -> "A" [] c = "b1" -> "B" [] OTHER -> "C"
Workers == {"w1"}
\* the HTTP requests in flight, each handled by a task of its own
Requests == {"r1", "r2"}
Tasks == Conns \cup Workers \cup Requests
\* the websockets that take part in one run
Scenarios == {{"a1", "a2", "b1"}, {"a1", "b1", "c1"}}
\* the websockets the server is given in one run
SessScenarios == {{"a1", "a2"}, {"a1", "b1"}}
\* a user who connects twice beside a user who connects once
LifeScenarios == {{"a1", "a2", "b1"}}
\* one user, who connects and reconnects
StaleScenarios == {{"a1", "a2"}}
\* two users with one websocket each (the callers of the presence service; the
\* sessions whose messages are followed)
PresScenarios == {{"a1", "b1"}}
NoConn == "none"
NoUser == "nobody"
NoTask == "free"
\* the addresses that one-time passwords are sent to
Emails == {"x@e"}
\* the codes that a one-time password can be
OtpCodes == {"111111", "222222"}
\* redis.get of a key that is not set
NoOtp == [code |-> "None", gen |-> 0]

VARIABLES
    now,          \* the wall clock, in ticks
    store,        \* Redis sorted sets: key -> set of [member, score]
    expiry,       \* Redis TTLs: key -> absolute expiry tick, or NoExpiry
    winAcc,       \* history: times of the accepted calls in the trailing window
    lastAcc,      \* history: time of the most recent accepted call, -1 if none
    limited,      \* history: a call was rejected since the most recent accepted one
    lastCall,     \* history: the call made just now (cleared by the next tick)
    shStore,      \* the store of the run in which one rejected call is left out
    shExpiry,
    shSkipped,    \* whether that call has been left out already
    rlp,          \* per process: position inside check_rate_limit
    lastRead,     \* two processes: the latest clock value a call has read
    active_connections,   \* ConnectionManager.active_connections
    lock,         \* ConnectionManager._lock: its holder and the tasks waiting for it
    closeCalled,  \* connections on which the manager has called close()
    dead,         \* connections whose transport is gone
    task,         \* per task: where it is suspended, and its locals
    hist,         \* history of the registry
    online,       \* presence: the Redis set presence:online_users
    udata,        \* presence: the users whose presence:user:<id> key is set
    db,           \* the messages table
    otp           \* Redis: the value of the key otp:<email>, per email

rlAux == <<now, winAcc, lastAcc, limited, lastCall, shStore, shExpiry, shSkipped, rlp, lastRead>>
rlVars == <<store, expiry, rlAux>>
sessVars == <<online, udata, db, otp>>
mgrVars == <<active_connections, lock, closeCalled, dead, task, hist, sessVars>>
vars == <<rlVars, mgrVars>>

\* ------------------------------------------------------------ rate limiter
\* Strings are sequences of tokens, ":" being one of them.
\* str(user_id) of a UUID: one token, which holds no ":"
UuidStr(user_id) == <<user_id>>

\* the action of the one call site, and other strings an action could be
SendMessage == <<"send_message">>
ActionNames == {SendMessage, <<"typing">>, <<"typing", ":", "A">>, <<"A", ":", "typing">>}

_get_key_shared(user_id, action) == <<"rate_limit", ":">> \o action

\* f"rate_limit:{action}:{user_id}"
_get_key(user_id, action) == <<"rate_limit", ":">> \o action \o <<":">> \o UuidStr(user_id)

RLKeys == {_get_key(u, SendMessage) : u \in Users}
TheKey == _get_key("A", SendMessage)

\* str(now): distinct clock values give distinct strings, equal values the same one
StrOf(t) == <<"str", t>>

\* A key whose TTL has run out is gone when the next command looks at it.
LiveSet(z, e, t) == IF e # NoExpiry /\ e <= t THEN {} ELSE z
LiveExp(z, e, t) == IF e # NoExpiry /\ e <= t THEN NoExpiry ELSE e

zremrangebyscore_excl(z, lo, hi) == {m \in z : ~(lo <= m.score /\ m.score < hi)}
zremrangebyscore(z, lo, hi) == {m \in z : ~(lo <= m.score /\ m.score <= hi)}

zcard(z) == Cardinality(z)

zadd(z, member, score) ==
    {m \in z : m.member # member} \cup {[member |-> member, score |-> score]}

\* an emptied sorted set is deleted, and its TTL with it
ExpAfter(z, e) == IF z = {} THEN NoExpiry ELSE e

RejectStore_recording(z1, t) == zadd(z1, StrOf(t), t)
RejectStore(z1, t) == z1

LimitReached(cnt) == cnt >= max_requests

ExpireAt_window(t) == t + window_size * TicksPerSec

\* self.redis.expire(key, self.window_size * 2), run at clock value t
ExpireAt(t) == t + window_size * 2 * TicksPerSec

\* check_rate_limit as a function of the record (z, e) and the clock value t:
\* the outcome and the record it leaves.
CheckResult(z, e, t) ==
    LET window_start == t - W
        z0 == LiveSet(z, e, t)
        e0 == LiveExp(z, e, t)
        z1 == zremrangebyscore(z0, 0, window_start)
        e1 == ExpAfter(z1, e0)
        request_count == zcard(z1)
    IN  IF LimitReached(request_count)
        THEN [ok |-> FALSE, z |-> RejectStore(z1, t),
              e |-> ExpAfter(RejectStore(z1, t), e1)]
        ELSE [ok |-> TRUE, z |-> zadd(z1, StrOf(t), t),
              e |-> ExpireAt(t)]

InWindow(s, t) == SelectSeq(s, LAMBDA x : x > t - W)

NoCall == [fresh |-> FALSE, ok |-> FALSE, wasLimited |-> FALSE, prevAcc |-> -1,
           both |-> FALSE, shOk |-> FALSE, before |-> 0]

InitRLAux ==
    /\ winAcc = << >>
    /\ lastAcc = -1
    /\ limited = FALSE
    /\ lastCall = NoCall
    /\ shStore = {}
    /\ shExpiry = NoExpiry
    /\ shSkipped = FALSE
    /\ rlp = [p \in RLProcs |-> [pc |-> "idle", now |-> 0, count |-> 0]]
    /\ lastRead = -1

InitRL ==
    /\ now = 0
    /\ store = [k \in RLKeys |-> {}]
    /\ expiry = [k \in RLKeys |-> NoExpiry]
    /\ InitRLAux

Tick ==
    /\ now < MaxTime
    /\ now' = now + 1
    /\ lastCall' = NoCall
    /\ UNCHANGED <<store, expiry, winAcc, lastAcc, limited, shStore, shExpiry, shSkipped,
                   rlp, lastRead, mgrVars>>

\* One whole check_rate_limit(user "A", "send_message") call in the one process.
\* skip: this (rejected) call is the one the comparison run leaves out.
CheckRateLimit(skip) ==
    LET r == CheckResult(store[TheKey], expiry[TheKey], now)
        s == CheckResult(shStore, shExpiry, now)
        w == InWindow(winAcc, now)
    IN  /\ Len(w) < MaxWinCalls
        /\ skip => (~r.ok /\ ~shSkipped)
        /\ store' = [store EXCEPT ![TheKey] = r.z]
        /\ expiry' = [expiry EXCEPT ![TheKey] = r.e]
        /\ winAcc' = IF r.ok THEN Append(w, now) ELSE w
        /\ lastAcc' = IF r.ok THEN now ELSE lastAcc
        /\ limited' = ~r.ok
        /\ lastCall' = [fresh |-> TRUE, ok |-> r.ok, wasLimited |-> limited,
                        prevAcc |-> lastAcc, both |-> ~skip, shOk |-> s.ok,
                        before |-> Len(w)]
        /\ shSkipped' = (shSkipped \/ skip)
        /\ shStore' = IF skip THEN shStore ELSE s.z
        /\ shExpiry' = IF skip THEN shExpiry ELSE s.e
        /\ UNCHANGED <<now, rlp, lastRead, mgrVars>>

NextRL == Tick \/ (\E skip \in BOOLEAN : CheckRateLimit(skip))

\* ------------------------------------------- rate limiter, two processes
\* The same check_rate_limit, run by two processes against the shared store:
\* each store command is one step, and the clock is read before the first.
\* Here every call reads a clock value of its own (now > lastRead), so that what
\* is seen is the effect of the interleaving alone.
EveryKey(f, v) == [f EXCEPT ![TheKey] = v]

InFlight == {p \in RLProcs : rlp[p].pc # "idle"}

\* the history of accepted calls is kept ordered by timestamp
InsertSorted(s, x) ==
    LET lo == SelectSeq(s, LAMBDA y : y <= x)
        hi == SelectSeq(s, LAMBDA y : y > x)
    IN  lo \o <<x>> \o hi

RLReturn(p, ok) ==
    /\ rlp' = [rlp EXCEPT ![p] = [pc |-> "idle", now |-> 0, count |-> 0]]
    /\ winAcc' = IF ok THEN InsertSorted(InWindow(winAcc, now), rlp[p].now)
                 ELSE InWindow(winAcc, now)
    /\ UNCHANGED <<lastAcc, limited, lastCall>>

\* key = self._get_key(...); now = time.time(); window_start = now - window_size
RLBegin(p) ==
    /\ rlp[p].pc = "idle"
    /\ Len(InWindow(winAcc, now)) + Cardinality(InFlight) < MaxWinCalls
    /\ now > lastRead
    /\ lastRead' = now
    /\ rlp' = [rlp EXCEPT ![p] = [pc |-> "purge", now |-> now, count |-> 0]]
    /\ UNCHANGED <<now, store, expiry, winAcc, lastAcc, limited, lastCall,
                   shStore, shExpiry, shSkipped, mgrVars>>

\* self.redis.zremrangebyscore(key, 0, window_start)
RLPurge(p) ==
    /\ rlp[p].pc = "purge"
    /\ LET z0 == LiveSet(store[TheKey], expiry[TheKey], now)
           e0 == LiveExp(store[TheKey], expiry[TheKey], now)
           z1 == zremrangebyscore(z0, 0, rlp[p].now - W)
       IN  /\ store' = EveryKey(store, z1)
           /\ expiry' = EveryKey(expiry, ExpAfter(z1, e0))
    /\ rlp' = [rlp EXCEPT ![p].pc = "count"]
    /\ UNCHANGED <<now, winAcc, lastAcc, limited, lastCall, shStore, shExpiry, shSkipped,
                   lastRead, mgrVars>>

\* request_count = self.redis.zcard(key); if request_count >= max_requests: return False
RLCount(p) ==
    /\ rlp[p].pc = "count"
    /\ LET z0 == LiveSet(store[TheKey], expiry[TheKey], now)
           e0 == LiveExp(store[TheKey], expiry[TheKey], now)
           request_count == zcard(z0)
       IN  /\ store' = EveryKey(store, z0)
           /\ expiry' = EveryKey(expiry, e0)
           /\ IF LimitReached(request_count)
              THEN RLReturn(p, FALSE)
              ELSE /\ rlp' = [rlp EXCEPT ![p].pc = "add", ![p].count = request_count]
                   /\ UNCHANGED <<winAcc, lastAcc, limited, lastCall>>
    /\ UNCHANGED <<now, shStore, shExpiry, shSkipped, lastRead, mgrVars>>

\* self.redis.zadd(key, {str(now): now})
RLAdd(p) ==
    /\ rlp[p].pc = "add"
    /\ LET z0 == LiveSet(store[TheKey], expiry[TheKey], now)
           e0 == LiveExp(store[TheKey], expiry[TheKey], now)
       IN  /\ store' = EveryKey(store, zadd(z0, StrOf(rlp[p].now), rlp[p].now))
           /\ expiry' = EveryKey(expiry, e0)
    /\ rlp' = [rlp EXCEPT ![p].pc = "expire"]
    /\ UNCHANGED <<now, winAcc, lastAcc, limited, lastCall, shStore, shExpiry, shSkipped,
                   lastRead, mgrVars>>

\* self.redis.expire(key, window_size * 2); return True
RLExpire(p) ==
    /\ rlp[p].pc = "expire"
    /\ LET z0 == LiveSet(store[TheKey], expiry[TheKey], now)
       IN  /\ store' = EveryKey(store, z0)
           /\ expiry' = EveryKey(expiry, IF z0 = {} THEN NoExpiry ELSE ExpireAt(now))
    /\ RLReturn(p, TRUE)
    /\ UNCHANGED <<now, shStore, shExpiry, shSkipped, lastRead, mgrVars>>

TickConc ==
    /\ now < MaxTimeConc
    /\ now' = now + 1
    /\ UNCHANGED <<store, expiry, winAcc, lastAcc, limited, lastCall,
                   shStore, shExpiry, shSkipped, rlp, lastRead, mgrVars>>

NextRLConc ==
    \/ TickConc
    \/ \E p \in RLProcs : RLBegin(p) \/ RLPurge(p) \/ RLCount(p) \/ RLAdd(p) \/ RLExpire(p)

\* ------------------------------------------------------ connection manager
\* asyncio tasks run until they suspend.  A task is parked at its suspension
\* point (pc); one step of the model completes that suspension and runs the
\* task's code up to its next one.  G is the state such a run works on.
Pack == [ac |-> active_connections, lock |-> lock, closed |-> closeCalled,
         dead |-> dead, task |-> task, hist |-> hist,
         online |-> online, udata |-> udata, db |-> db, otp |-> otp,
         store |-> store, expiry |-> expiry]

Commit(G) ==
    /\ active_connections' = G.ac
    /\ lock' = G.lock
    /\ closeCalled' = G.closed
    /\ dead' = G.dead
    /\ task' = G.task
    /\ hist' = G.hist
    /\ online' = G.online
    /\ udata' = G.udata
    /\ db' = G.db
    /\ otp' = G.otp
    /\ store' = G.store
    /\ expiry' = G.expiry
    /\ UNCHANGED rlAux

\* dict, in insertion order: a sequence of <<key, value>> with distinct keys
DictHas(d, k) == \E i \in 1..Len(d) : d[i][1] = k
DictGet(d, k) == IF DictHas(d, k) THEN d[CHOOSE i \in 1..Len(d) : d[i][1] = k][2] ELSE NoConn
DictSet(d, k, v) ==
    IF DictHas(d, k) THEN [i \in 1..Len(d) |-> IF d[i][1] = k THEN <<k, v>> ELSE d[i]]
    ELSE Append(d, <<k, v>>)
DictDel_all(d, k) == << >>
DictDel(d, k) == SelectSeq(d, LAMBDA e : e[1] # k)
DictKeys(d) == {d[i][1] : i \in 1..Len(d)}
DictValues(d) == {d[i][2] : i \in 1..Len(d)}

\* get_connected_users: list(self.active_connections.keys())
get_connected_users(ac) == [i \in 1..Len(ac) |-> ac[i][1]]

\* asyncio.Lock: free, or held; release hands it to the longest waiter
LockFree(G) == G.lock.holder = NoTask
ReleaseLock(G) ==
    IF G.lock.q = << >> THEN [G EXCEPT !.lock.holder = NoTask]
    ELSE [G EXCEPT !.lock = [holder |-> Head(G.lock.q), q |-> Tail(G.lock.q)]]
WaitLock(G, t) == [G EXCEPT !.lock.q = Append(@, t), !.task[t].pc = "lock"]
\* acquire() is cancelled: the waiter leaves the queue, and a lock it was
\* already handed goes to the next waiter
CancelAcquire(G, t) ==
    IF G.task[t].pc # "lock" THEN G
    ELSE IF G.lock.holder = t THEN ReleaseLock(G)
    ELSE [G EXCEPT !.lock.q = SelectSeq(@, LAMBDA w : w # t)]

\* whether a send_json on connection c raises
Broken(G, c) == c \in G.dead \cup G.closed

\* task t begins a manager call (or a send of its own): the call's locals
CallOp(G, t, op, user, excl, ev, k) ==
    [G EXCEPT !.task[t].op = op, !.task[t].user = user, !.task[t].excl = excl,
              !.task[t].ev = ev, !.task[t].k = k, !.task[t].duser = NoUser,
              !.task[t].snap = << >>, !.task[t].idx = 0, !.task[t].target = NoConn,
              !.task[t].doomed = FALSE, !.task[t].ret = "none",
              !.task[t].sent = {}, !.task[t].failed = {}]

RECURSIVE Resume(_, _)
RECURSIVE BroadcastFrom(_, _, _)

\* broadcast_to_all, the loop from the next entry of the snapshot on
BroadcastNext(G, t) == BroadcastFrom(G, t, G.task[t].idx + 1)

AfterDisconnect_abort(G, t) ==
    CASE G.task[t].op = "send_to_user" -> Resume([G EXCEPT !.task[t].ret = "False"], t)
      [] OTHER -> Resume(G, t)

\* what follows a disconnect(user_id) call, by the operation that made it
AfterDisconnect(G, t) ==
    CASE G.task[t].op = "send_to_user" -> Resume([G EXCEPT !.task[t].ret = "False"], t)
      [] G.task[t].op = "broadcast_to_all" -> BroadcastNext(G, t)
      [] OTHER -> Resume(G, t)

\* if user_id in self.active_connections: del self.active_connections[user_id]
DisconnectLocked(G, t) ==
    LET user_id == G.task[t].duser
        gone == DictGet(G.ac, user_id)
        G1 == [G EXCEPT !.ac = DictDel(@, user_id),
                        !.task[t].steps = IF G.task[t].k = "td_disc"
                                          THEN Append(@, "unregistered") ELSE @,
                        !.hist.removed = IF gone = NoConn THEN @ ELSE @ \cup {gone},
                        !.hist.lastEnter[user_id] = NoConn,
                        !.hist.evict = [by |-> G.task[t].op, failed |-> G.task[t].target,
                                        removed |-> gone]]
    IN  AfterDisconnect(ReleaseLock(G1), t)

Disconnect_noop(G, t, user_id) == AfterDisconnect(G, t)

\* disconnect: async with self._lock
Disconnect(G, t, user_id) ==
    LET G1 == [G EXCEPT !.task[t].duser = user_id]
    IN  IF LockFree(G1) THEN DisconnectLocked([G1 EXCEPT !.lock.holder = t], t)
        ELSE WaitLock(G1, t)

\* self.active_connections[user_id] = websocket, and the lock is released
ConnectStore(G, t) ==
    Resume(ReleaseLock([G EXCEPT !.ac = DictSet(@, G.task[t].user, t),
                                 !.hist.everReg = @ \cup {t},
                                 !.task[t].steps = Append(@, "registered")]), t)

AfterClose_raise(G, t, ok) ==
    LET G1 == [G EXCEPT !.task[t].ret = IF ok THEN "closed" ELSE "swallowed"]
    IN  IF ok THEN ConnectStore(G1, t) ELSE Resume(ReleaseLock(G1), t)

\* try: await old_ws.close()  except Exception: pass, then the new connection
\* is stored
AfterClose(G, t, ok) ==
    ConnectStore([G EXCEPT !.task[t].ret = IF ok THEN "closed" ELSE "swallowed"], t)

CloseOld_skip(closed, old_ws) == closed
CloseOld(closed, old_ws) == closed \cup {old_ws}

\* history: the connection c, if its session is waiting for an event on an
\* open websocket
InLoop(G, c) ==
    IF G.task[c].pc = "receive" /\ G.task[c].k = "loop" /\ ~Broken(G, c) THEN {c} ELSE {}

\* connect, inside the lock: close the connection already registered, if any
ConnectLocked(G, t) ==
    LET user_id == G.task[t].user
        G1 == [G EXCEPT !.hist.lastEnter[user_id] = t]
    IN  IF DictHas(G1.ac, user_id)
        THEN [G1 EXCEPT !.closed = CloseOld(@, DictGet(G1.ac, user_id)),
                        !.hist.replacedActive = @ \cup InLoop(G1, DictGet(G1.ac, user_id)),
                        !.task[t].doomed = Broken(G1, DictGet(G1.ac, user_id)),
                        !.task[t].pc = "closing"]
        ELSE ConnectStore(G1, t)

\* connect: async with self._lock
Connect(G, t) ==
    IF LockFree(G) THEN ConnectLocked([G EXCEPT !.lock.holder = t], t)
    ELSE WaitLock(G, t)

WriteFrame_front(log, c, ev, n) ==
    IF ev = "new_message" THEN <<<<c, n>>>> \o log ELSE log

\* the new_message frames a session has written, in the order of its send_json
\* calls: the connection, and which of the session's inbound events it answers
WriteFrame(log, c, ev, n) ==
    IF ev = "new_message" THEN Append(log, <<c, n>>) ELSE log

\* await websocket.send_json(message) on connection c begins
InvokeSend(G, t, c) ==
    [G EXCEPT !.task[t].pc = "sending", !.task[t].target = c,
              !.task[t].doomed = Broken(G, c),
              !.task[t].sent = @ \cup {c},
              !.task[t].outlog = WriteFrame(@, c, G.task[t].ev, G.task[t].n)]

\* send_to_user up to the send
SendToUser(G, t) ==
    LET websocket == DictGet(G.ac, G.task[t].user)
    IN  IF websocket # NoConn THEN InvokeSend(G, t, websocket)
        ELSE Resume([G EXCEPT !.task[t].ret = "False"], t)

BroadcastFrom(G, t, i) ==
    LET f == G.task[t]
    IN  IF i > Len(f.snap) THEN Resume([G EXCEPT !.task[t].idx = i], t)
        ELSE IF f.excl # NoUser /\ f.snap[i][1] = f.excl THEN BroadcastFrom(G, t, i + 1)
        ELSE InvokeSend([G EXCEPT !.task[t].idx = i], t, f.snap[i][2])

\* connections_copy = list(self.active_connections.items())
BroadcastToAll(G, t) ==
    BroadcastFrom([G EXCEPT !.task[t].snap = G.ac], t, 1)

\* ---------------------------------------------------------- session handler
\* an event without content
NoData == [core |-> 0, pad |-> 0]
\* no Message row
NoMessage == [id |-> <<NoConn, 0>>, user_id |-> NoUser, content |-> 0, created_at |-> NoExpiry,
              updated_at |-> NoExpiry, is_deleted |-> FALSE]

\* the connections of other users whose sessions are in their receive loop, on
\* an open websocket, when the session of t leaves its own
Connected(G, t) ==
    {c \in G.hist.conns : /\ Owner(c) # Owner(t)
                          /\ G.task[c].k = "loop" /\ G.task[c].why = "none"
                          /\ G.task[c].steps # << >>
                          /\ G.task[c].steps[Len(G.task[c].steps)] = "joined"
                          /\ ~Broken(G, c)}

\* websocket_chat's finally block: manager.disconnect(user.id), ...
Teardown(G, t, why) ==
    LET G1 == [G EXCEPT !.task[t].peers = Connected(G, t), !.task[t].outlog = << >>,
                        !.task[t].inev = "none", !.task[t].data = NoData,
                        !.task[t].clen = 0, !.task[t].didRL = FALSE, !.task[t].didDB = FALSE,
                        !.task[t].message = NoMessage, !.task[t].payload = NoMessage,
                        !.task[t].why = why,
                        !.task[t].steps = Append(@, "teardown")]
    IN  Disconnect(CallOp(G1, t, "disconnect", Owner(t), NoUser, "none", "td_disc"), t, Owner(t))

\* the send returned (ok) or raised
AfterSend(G, t, ok) ==
    LET f == G.task[t]
    IN  IF ok
        THEN CASE f.op = "send_to_user" -> Resume([G EXCEPT !.task[t].ret = "True"], t)
               [] f.op = "broadcast_to_all" -> BroadcastNext(G, t)
               [] OTHER -> Resume(G, t)
        ELSE LET G1 == [G EXCEPT !.task[t].failed = @ \cup {f.target}]
             IN  CASE f.op = "send_to_user" -> Disconnect(G1, t, f.user)
                   [] f.op = "broadcast_to_all" -> Disconnect(G1, t, f.snap[f.idx][1])
                   [] OTHER -> Teardown(G1, t, "error")

\* a call returns to the code that made it, which runs on to its next await
Resume(G, t) ==
    LET G1 == [G EXCEPT !.task[t].duser = NoUser, !.task[t].doomed = FALSE,
                        !.task[t].idx = 0]
        k == G.task[t].k
    IN  CASE k = "connected" -> [G1 EXCEPT !.task[t].pc = "sadd"]
          [] k = "loop" /\ G.task[t].ev = "user_joined" ->
                [G1 EXCEPT !.task[t].pc = "receive", !.task[t].steps = Append(@, "joined")]
          [] k = "loop" -> [G1 EXCEPT !.task[t].pc = "receive"]
          [] k = "td_disc" -> [G1 EXCEPT !.task[t].pc = "srem"]
          [] k = "td_done" -> [G1 EXCEPT !.task[t].pc = "done", !.dead = @ \cup {t},
                                         !.task[t].steps = Append(@, "left")]
          [] k = "response" -> [G1 EXCEPT !.task[t].pc = "done", !.task[t].response = "ok"]
          [] OTHER -> [G1 EXCEPT !.task[t].pc = "idle"]

TypingExclude_none(user_id) == NoUser
TypingExclude(user_id) == user_id

\* handle_typing
HandleTyping(G, t) ==
    BroadcastToAll(CallOp(G, t, "broadcast_to_all", NoUser, TypingExclude(Owner(t)),
                          "user_typing", "loop"), t)

Strip_none(content) == content.core + content.pad

\* content.strip(): content is given by the length of its core and of the white
\* space around it
Strip(content) == content.core

\* if not content
IsEmpty(content) == content = 0

ErrorToSender(G, t) ==
    SendToUser(CallOp(G, t, "send_to_user", Owner(t), NoUser, "error", "loop"), t)

\* handle_send_message up to its first await
HandleSendMessage(G, t, data) ==
    LET content == Strip(data)
        G0 == [G EXCEPT !.task[t].clen = content]
        key == _get_key(Owner(t), SendMessage)
        r == CheckResult(G.store[key], G.expiry[key], now)
        G1 == [G0 EXCEPT !.store[key] = r.z, !.expiry[key] = r.e, !.task[t].didRL = TRUE]
    IN  IF IsEmpty(content) THEN [G0 EXCEPT !.task[t].pc = "receive"]
        ELSE IF content > MaxContent THEN ErrorToSender(G0, t)
        ELSE IF ~r.ok THEN ErrorToSender(G1, t)
        ELSE [G1 EXCEPT !.task[t].pc = "db_create", !.task[t].didDB = TRUE]

HandlePing_broadcast(G, t) ==
    BroadcastToAll(CallOp(G, t, "broadcast_to_all", NoUser, NoUser, "pong", "loop"), t)

\* elif event == "ping": await websocket.send_json({"event": "pong", "data": {}})
HandlePing(G, t) == InvokeSend(CallOp(G, t, "pong", NoUser, NoUser, "pong", "loop"), t, t)

HandleUnknown_error(G, t) == ErrorToSender(G, t)

\* else: logger.warning(f"Unknown event: {event}"), and the loop goes on
HandleUnknown(G, t) == [G EXCEPT !.task[t].pc = "receive"]

\* the receive loop's dispatch on the event tag
Dispatch(G, t, event, data) ==
    LET G1 == [CallOp(G, t, "none", NoUser, NoUser, "none", "loop") EXCEPT
                  !.task[t].inev = event, !.task[t].n = @ + 1, !.task[t].clen = 0,
                  !.task[t].didRL = FALSE, !.task[t].didDB = FALSE,
                  !.task[t].message = NoMessage, !.task[t].payload = NoMessage,
                  !.task[t].data = data]
    IN  CASE event = "send_message" -> HandleSendMessage(G1, t, data)
          [] event = "typing" -> HandleTyping(G1, t)
          [] event = "ping" -> HandlePing(G1, t)
          [] OTHER -> HandleUnknown(G1, t)

NoFrame == [pc |-> "idle", op |-> "none", k |-> "caller", user |-> NoUser,
            duser |-> NoUser, excl |-> NoUser, ev |-> "none", snap |-> << >>, idx |-> 0,
            target |-> NoConn, doomed |-> FALSE, ret |-> "none",
            sent |-> {}, failed |-> {}, n |-> 0,
            inev |-> "none", clen |-> 0, didRL |-> FALSE, didDB |-> FALSE,
            message |-> NoMessage, payload |-> NoMessage, data |-> NoData,
            auth |-> "none", code |-> 0, steps |-> << >>, why |-> "none",
            enum |-> {}, todo |-> << >>, cur |-> NoUser, result |-> {}, removed |-> {},
            peers |-> {}, outlog |-> << >>,
            request |-> "none", current_user |-> NoUser,
            message_id |-> <<NoConn, 0>>, content |-> 0, response |-> "none",
            limit |-> 0, cursor |-> NoExpiry, messages |-> << >>,
            next_cursor |-> NoExpiry, pages |-> << >>,
            email |-> "none", otp |-> "none", stored_otp |-> NoOtp]

NoEvict == [by |-> "none", failed |-> NoConn, removed |-> NoConn]

\* the application with the rows of the messages table given
InitWith(first, scenarios, rows) ==
    /\ active_connections = << >>
    /\ lock = [holder |-> NoTask, q |-> << >>]
    /\ closeCalled = {}
    /\ dead = {}
    /\ online = {}
    /\ udata = {}
    /\ db = rows
    /\ otp = [e \in Emails |-> NoOtp]
    /\ \E sc \in scenarios :
          /\ hist = [everReg |-> {}, removed |-> {}, replacedActive |-> {},
                     lastEnter |-> [u \in Users |-> NoConn],
                     evict |-> NoEvict, conns |-> sc,
                     stored |-> 0, verified |-> << >>]
          /\ task = [t \in Tasks |-> [NoFrame EXCEPT !.pc = IF t \in sc THEN first ELSE "idle"]]

\* the application before its first message
InitApp(first, scenarios) == InitWith(first, scenarios, {})

\* the manager alone: every task is a caller between calls
InitMgr == InitApp("idle", Scenarios)

\* the server: a handler task for each websocket that will be opened
InitSess == InitApp("new", SessScenarios)

\* no websocket at all: the application state the rate limiter runs beside
InitNoConns == InitApp("idle", {{}})

\* ------------------------------------------------- the manager's callers
CanCall(t) == t \in Workers /\ task[t].pc = "idle" /\ task[t].n < MaxCalls

Called(G, t) == [G EXCEPT !.task[t].n = @ + 1]

\* await manager.connect(Owner(t), t): a websocket is registered once
CallConnect(t) ==
    /\ t \in hist.conns /\ task[t].pc = "idle" /\ task[t].op = "none" /\ t \notin dead
    /\ Commit(Connect(CallOp(Pack, t, "connect", Owner(t), NoUser, "none", "caller"), t))

\* await manager.disconnect(u)
CallDisconnect(t, u) ==
    /\ CanCall(t)
    /\ Commit(Disconnect(Called(CallOp(Pack, t, "disconnect", u, NoUser, "none", "caller"), t), t, u))

\* await manager.send_to_user(u, message)
CallSendToUser(t, u) ==
    /\ CanCall(t)
    /\ Commit(SendToUser(Called(CallOp(Pack, t, "send_to_user", u, NoUser, "error", "caller"), t), t))

\* await manager.broadcast_to_all(message, exclude=x)
CallBroadcast(t, x) ==
    /\ CanCall(t)
    /\ Commit(BroadcastToAll(Called(CallOp(Pack, t, "broadcast_to_all", NoUser, x, "event", "caller"), t), t))

\* ------------------------------------------- completions inside the manager
\* the lock is handed to a waiting connect or disconnect
LockGranted(t) ==
    /\ task[t].pc = "lock" /\ lock.holder = t
    /\ Commit(IF task[t].op = "connect" THEN ConnectLocked(Pack, t)
              ELSE DisconnectLocked(Pack, t))

\* await old_ws.close() returned (ok) or raised: a close raises only on a
\* websocket that was gone or closed already
CloseDone(t, ok) ==
    /\ task[t].pc = "closing"
    /\ ~ok => task[t].doomed
    /\ Commit(AfterClose(Pack, t, ok))

\* await websocket.send_json(message) returned (ok) or raised
SendDone(t, ok) ==
    /\ task[t].pc = "sending"
    /\ ok => ~task[t].doomed
    /\ ~ok => Broken(Pack, task[t].target)
    /\ Commit(AfterSend(Pack, t, ok))

\* a client goes away: its connection's transport is dead from now on
Die(c) ==
    /\ c \in hist.conns /\ c \notin dead /\ task[c].pc # "new"
    /\ dead' = dead \cup {c}
    /\ UNCHANGED <<active_connections, lock, closeCalled, task, hist, sessVars, rlVars>>

NextMgr ==
    \/ \E t \in Conns : CallConnect(t)
    \/ \E t \in Workers, u \in Users : CallDisconnect(t, u)
    \/ \E t \in Workers, u \in Users : CallSendToUser(t, u)
    \/ \E t \in Workers, x \in Users \cup {NoUser} : CallBroadcast(t, x)
    \/ \E t \in Tasks : LockGranted(t)
    \/ \E t \in Tasks, ok \in BOOLEAN : CloseDone(t, ok)
    \/ \E t \in Tasks, ok \in BOOLEAN : SendDone(t, ok)
    \/ \E c \in Conns : Die(c)

\* ------------------------------------------------ websocket_chat, by await
\* the handler is called for a new websocket: user = await get_user_from_token(...)
SessionStart(t) ==
    /\ task[t].pc = "new"
    /\ Commit([Pack EXCEPT !.task[t].pc = "auth"])

\* what get_user_from_token can find: a valid token of an active user, a token
\* that does not decode, one of a user that does not exist, one of an inactive user
AuthResults == {"ok", "invalid", "unknown", "inactive"}

Admit_inactive(res) == res \in {"ok", "inactive"}

\* if not user: ... return; if not user.is_active: ... return
Admit(res) == res = "ok"

\* the token is checked: no user or an inactive one closes with 1008, else accept()
AuthDone(t, res) ==
    /\ task[t].pc = "auth"
    /\ Commit(IF Admit(res)
              THEN [Pack EXCEPT !.task[t].pc = "accept", !.task[t].auth = res]
              ELSE [Pack EXCEPT !.task[t].pc = "reject", !.task[t].auth = res,
                                !.task[t].code = WS_1008_POLICY_VIOLATION])

\* await websocket.close(code=WS_1008_POLICY_VIOLATION); return
RejectDone(t) ==
    /\ task[t].pc = "reject"
    /\ Commit([Pack EXCEPT !.task[t].pc = "done", !.dead = @ \cup {t}])

\* await websocket.accept() returned: await manager.connect(user.id, websocket)
AcceptDone(t) ==
    /\ task[t].pc = "accept"
    /\ Commit(Connect(CallOp(Pack, t, "connect", Owner(t), NoUser, "none", "connected"), t))

JoinExclude_none(user_id) == NoUser

\* the user_joined broadcast's exclude=user.id
JoinExclude(user_id) == user_id

\* add_user_presence: await self.redis.sadd(...)
SaddDone(t) ==
    /\ task[t].pc = "sadd"
    /\ Commit([Pack EXCEPT !.online = @ \cup {task[t].user}, !.task[t].pc = "pset"])

\* add_user_presence: await self.redis.set(user_key, username, ex=3600); in
\* websocket_chat the user_joined broadcast follows
PsetDone(t) ==
    /\ task[t].pc = "pset"
    /\ LET G == [Pack EXCEPT !.udata = @ \cup {task[t].user}]
       IN  Commit(IF task[t].k = "caller" THEN Resume(G, t)
                  ELSE BroadcastToAll(CallOp([G EXCEPT !.task[t].steps =
                                                          @ \o <<"presence", "broadcast">>],
                                             t, "broadcast_to_all", NoUser, JoinExclude(Owner(t)),
                                             "user_joined", "loop"), t))

\* data = await websocket.receive_json() returned an event
Receive(t, event, data) ==
    /\ task[t].pc = "receive"
    /\ ~Broken(Pack, t)
    /\ task[t].n < MaxRecv
    /\ Commit(Dispatch(Pack, t, event, data))

\* receive_json raised (the client left, or the connection was closed): finally
ReceiveRaises(t) ==
    /\ task[t].pc = "receive"
    /\ Broken(Pack, t)
    /\ Commit(Teardown(Pack, t, "disconnect"))

\* create_message: Message(user_id, content), whose id (uuid4) and created_at
\* (the clock) are set when it is flushed
NewMessage(t, n, content) ==
    [id |-> <<t, n>>, user_id |-> Owner(t), content |-> content, created_at |-> now,
     updated_at |-> NoExpiry, is_deleted |-> FALSE]

\* MessageResponse(id=message.id, user_id=message.user_id, ...)
MessageResponse(message) ==
    [id |-> message.id, user_id |-> message.user_id, content |-> message.content,
     created_at |-> message.created_at, updated_at |-> message.updated_at,
     is_deleted |-> message.is_deleted]

\* manager.broadcast_to_all({"event": "new_message", "data": message_response})
BroadcastNewMessage(G, t) ==
    BroadcastToAll(CallOp([G EXCEPT !.task[t].payload = MessageResponse(G.task[t].message)], t,
                          "broadcast_to_all", NoUser, NoUser, "new_message", "loop"), t)

AfterCreate_broadcast(G, t) == BroadcastNewMessage(G, t)

\* after create_message: await db.commit()
AfterCreate(G, t) == [G EXCEPT !.task[t].pc = "db_commit"]

OnDbError_notify(G, t) == ErrorToSender(G, t)

\* except Exception as e: logger.error(...); await db.rollback()
OnDbError(G, t) == [G EXCEPT !.task[t].pc = "db_rollback"]

\* message = await create_message(db, user.id, content) returned or raised
DbCreateDone(t, ok) ==
    /\ task[t].pc = "db_create"
    /\ Commit(IF ok
              THEN AfterCreate([Pack EXCEPT !.task[t].message =
                                               NewMessage(t, task[t].n, task[t].clen)], t)
              ELSE OnDbError(Pack, t))

\* await db.commit() returned (then the new_message broadcast) or raised
DbCommitDone(t, ok) ==
    /\ task[t].pc = "db_commit"
    /\ Commit(IF ok
              THEN BroadcastNewMessage([Pack EXCEPT !.db = @ \cup {task[t].message}], t)
              ELSE OnDbError(Pack, t))

\* await db.rollback() in the except block
DbRollbackDone(t) ==
    /\ task[t].pc = "db_rollback"
    /\ Commit([Pack EXCEPT !.task[t].pc = "receive"])

srem_keep(set, member) == set

\* Redis SREM
srem(set, member) == set \ {member}

\* remove_user_presence: await self.redis.srem(...)
SremDone(t) ==
    /\ task[t].pc = "srem"
    /\ Commit([Pack EXCEPT !.online = srem(@, task[t].user), !.task[t].pc = "pdel",
                           !.task[t].steps = IF task[t].k = "caller" THEN @
                                             ELSE Append(@, "srem")])

delete_all(keys, user) == {}

\* redis.delete(user_key): the key of this user goes, if it is there
delete(keys, user) == keys \ {user}

\* remove_user_presence: await self.redis.delete(user_key); in websocket_chat
\* the user_left broadcast follows, after which the handler returns
PdelDone(t) ==
    /\ task[t].pc = "pdel"
    /\ LET G == [Pack EXCEPT !.udata = delete(@, task[t].user)]
       IN  Commit(IF task[t].k = "caller" THEN Resume(G, t)
                  ELSE BroadcastToAll(CallOp([G EXCEPT !.task[t].steps =
                                                          @ \o <<"delete", "broadcast_left">>],
                                             t, "broadcast_to_all", NoUser, NoUser,
                                             "user_left", "td_done"), t))

\* the handler's task is cancelled (the server shuts down) at an await of its
\* receive loop: CancelledError passes the except clauses and reaches finally
Cancel(t) ==
    /\ task[t].k = "loop" /\ "joined" \in {task[t].steps[i] : i \in 1..Len(task[t].steps)}
    /\ task[t].pc \in {"receive", "sending", "lock", "db_create", "db_commit", "db_rollback"}
    /\ Commit(Teardown(CancelAcquire(Pack, t), t, "cancel"))

InEvents == {"send_message", "typing", "ping", "unknown"}
\* the contents a client sends: nothing, white space only, and MaxContent or
\* MaxContent + 1 characters with white space around them
Contents == {[core |-> 0, pad |-> 0]} \cup
            {[core |-> c, pad |-> 1] : c \in {0, MaxContent, MaxContent + 1}}

NextSess ==
    \/ \E t \in Conns : SessionStart(t)
    \/ \E t \in Conns, res \in AuthResults : AuthDone(t, res)
    \/ \E t \in Conns : RejectDone(t)
    \/ \E t \in Conns : AcceptDone(t)
    \/ \E t \in Conns : SaddDone(t)
    \/ \E t \in Conns : PsetDone(t)
    \/ \E t \in Conns, data \in Contents : Receive(t, "send_message", data)
    \/ \E t \in Conns, event \in InEvents \ {"send_message"} : Receive(t, event, NoData)
    \/ \E t \in Conns : ReceiveRaises(t)
    \/ \E t \in Conns, ok \in BOOLEAN : DbCreateDone(t, ok)
    \/ \E t \in Conns, ok \in BOOLEAN : DbCommitDone(t, ok)
    \/ \E t \in Conns : DbRollbackDone(t)
    \/ \E t \in Conns : SremDone(t)
    \/ \E t \in Conns : PdelDone(t)
    \/ \E t \in Conns : Cancel(t)
    \/ \E t \in Tasks : LockGranted(t)
    \/ \E t \in Tasks, ok \in BOOLEAN : CloseDone(t, ok)
    \/ \E t \in Tasks, ok \in BOOLEAN : SendDone(t, ok)
    \/ \E c \in Conns : Die(c)

\* ------------------------------------------- PresenceService and its callers
\* await presence_service.add_user_presence(Owner(t), username)
CallAddPresence(t) ==
    /\ t \in hist.conns /\ task[t].pc = "idle" /\ task[t].n < MaxCalls
    /\ Commit([Called(CallOp(Pack, t, "add_user_presence", Owner(t), NoUser, "none", "caller"), t)
                  EXCEPT !.task[t].pc = "sadd"])

\* await presence_service.remove_user_presence(Owner(t))
CallRemovePresence(t) ==
    /\ t \in hist.conns /\ task[t].pc = "idle" /\ task[t].n < MaxCalls
    /\ Commit([Called(CallOp(Pack, t, "remove_user_presence", Owner(t), NoUser, "none", "caller"), t)
                  EXCEPT !.task[t].pc = "srem"])

\* the hour of the ex=3600 of a user's presence key is over: Redis drops the key
ExpireKey(u) ==
    /\ u \in udata
    /\ udata' = udata \ {u}
    /\ UNCHANGED <<active_connections, lock, closeCalled, dead, task, hist, online, db, otp, rlVars>>

\* the orders in which a set can be iterated
Orders(S) == {s \in [1..Cardinality(S) -> S] : \A i, j \in 1..Cardinality(S) : i # j => s[i] # s[j]}

\* get_online_users: user_ids = await self.redis.smembers(self.presence_key)
CallGetOnlineUsers(t) ==
    /\ CanCall(t)
    /\ Commit([Called(CallOp(Pack, t, "get_online_users", NoUser, NoUser, "none", "caller"), t)
                  EXCEPT !.task[t].pc = "smembers", !.task[t].enum = {}, !.task[t].todo = << >>,
                         !.task[t].cur = NoUser, !.task[t].result = {}, !.task[t].removed = {}])

\* get_online_users, the loop from its next user-id on: await self.redis.get(user_key),
\* or return online_users
NextUserId(G, t) ==
    IF G.task[t].todo = << >> THEN Resume([G EXCEPT !.task[t].cur = NoUser], t)
    ELSE [G EXCEPT !.task[t].cur = Head(G.task[t].todo), !.task[t].todo = Tail(@),
                   !.task[t].pc = "get"]

\* smembers returned the online set, which the loop iterates in some order
SmembersDone(t, order) ==
    /\ task[t].pc = "smembers"
    /\ order \in Orders(online)
    /\ Commit(NextUserId([Pack EXCEPT !.task[t].enum = online, !.task[t].todo = order], t))

Truthy_always(username) == TRUE

\* if username: redis.get gives None for a key that is not there
Truthy(username) == username

\* username = await self.redis.get(user_key) returned
GetDone(t) ==
    /\ task[t].pc = "get"
    /\ Commit(IF Truthy(task[t].cur \in udata)
              THEN NextUserId([Pack EXCEPT !.task[t].result = @ \cup {task[t].cur}], t)
              ELSE [Pack EXCEPT !.task[t].pc = "srem_stale"])

\* await self.redis.srem(self.presence_key, user_id) of a stale entry returned
SremStaleDone(t) ==
    /\ task[t].pc = "srem_stale"
    /\ Commit(NextUserId([Pack EXCEPT !.online = srem(@, task[t].cur),
                                      !.task[t].removed = @ \cup {task[t].cur}], t))

NextPres ==
    \/ \E t \in Conns : CallAddPresence(t)
    \/ \E t \in Conns : CallRemovePresence(t)
    \/ \E t \in Conns : SaddDone(t)
    \/ \E t \in Conns : PsetDone(t)
    \/ \E t \in Conns : SremDone(t)
    \/ \E t \in Conns : PdelDone(t)
    \/ \E u \in Users : ExpireKey(u)
    \/ \E t \in Workers : CallGetOnlineUsers(t)
    \/ \E t \in Workers, order \in Orders(online) : SmembersDone(t, order)
    \/ \E t \in Workers : GetDone(t)
    \/ \E t \in Workers : SremStaleDone(t)

\* sessions that come and go, with valid tokens and clients that send nothing
NextLife ==
    \/ \E t \in Conns : SessionStart(t)
    \/ \E t \in Conns : AuthDone(t, "ok")
    \/ \E t \in Conns : AcceptDone(t)
    \/ \E t \in Conns : SaddDone(t)
    \/ \E t \in Conns : PsetDone(t)
    \/ \E t \in Conns : ReceiveRaises(t)
    \/ \E t \in Conns : SremDone(t)
    \/ \E t \in Conns : PdelDone(t)
    \/ \E t \in Tasks : LockGranted(t)
    \/ \E t \in Tasks, ok \in BOOLEAN : CloseDone(t, ok)
    \/ \E t \in Tasks : SendDone(t, TRUE)
    \/ \E c \in Conns : Die(c)

\* get_presence_service() or add_user_presence raises in the setup, which is
\* not inside the try: the exception leaves websocket_chat, no finally block
\* runs, and the server closes the websocket
AddPresenceRaises(t) ==
    /\ task[t].pc \in {"sadd", "pset"} /\ task[t].k # "caller"
    /\ Commit([Pack EXCEPT !.task[t].pc = "done", !.task[t].why = "setup_error",
                           !.dead = @ \cup {t}])

\* sessions that come and go, whose setup can fail
NextSetup ==
    \/ NextLife
    \/ \E t \in Conns : AddPresenceRaises(t)

\* receive_json returns a further send_message, of MaxContent characters
ReceiveNext(t) ==
    /\ task[t].pc = "receive"
    /\ ~Broken(Pack, t)
    /\ task[t].n < MaxSends
    /\ Commit(Dispatch(Pack, t, "send_message", [core |-> MaxContent, pad |-> 1]))

\* two sessions that stay, whose clients send messages that are accepted and
\* persisted
NextOrder ==
    \/ \E t \in Conns : SessionStart(t)
    \/ \E t \in Conns : AuthDone(t, "ok")
    \/ \E t \in Conns : AcceptDone(t)
    \/ \E t \in Conns : SaddDone(t)
    \/ \E t \in Conns : PsetDone(t)
    \/ \E t \in Conns : ReceiveNext(t)
    \/ \E t \in Conns : DbCreateDone(t, TRUE)
    \/ \E t \in Conns : DbCommitDone(t, TRUE)
    \/ \E t \in Tasks : SendDone(t, TRUE)

\* the sessions of the server, with the username keys expiring
NextStale ==
    \/ NextSess
    \/ \E u \in Users : ExpireKey(u)

\* the rate-limit records the server starts from: empty, or each user's window
\* full after max_requests accepted sends at the clock values 0 .. max_requests-1
FullWindow == {[member |-> StrOf(i), score |-> i] : i \in 0..(max_requests - 1)}

InitSessRL ==
    /\ now = max_requests - 1
    /\ \E full \in BOOLEAN :
          /\ store = [k \in RLKeys |-> IF full THEN FullWindow ELSE {}]
          /\ expiry = [k \in RLKeys |-> IF full THEN now + window_size * 2 * TicksPerSec
                                        ELSE NoExpiry]
    /\ InitRLAux

\* ------------------------------------------ PATCH and DELETE /messages/{id}
\* the table the requests are made against: a message of A and a message of B
RestRows ==
    { [NoMessage EXCEPT !.id = <<"a1", 1>>, !.user_id = "A", !.content = 1, !.created_at = 0],
      [NoMessage EXCEPT !.id = <<"b1", 1>>, !.user_id = "B", !.content = 1, !.created_at = 0] }
\* the ids a request can name: the two rows, and an id that no row has
MessageIds == {<<"a1", 1>>, <<"b1", 1>>, <<"c1", 1>>}
\* the users who make requests
Editors == {"A", "B"}
\* MessageUpdate.content of an edit
EditContents == {2}

\* select(Message).where(Message.id == message_id): scalar_one_or_none()
get_message_by_id(rows, message_id) ==
    IF \E m \in rows : m.id = message_id
    THEN CHOOSE m \in rows : m.id = message_id
    ELSE NoMessage

\* edit_message: message = await update_message(db, message_id, current_user.id,
\* content), up to update_message's await of get_message_by_id
CallEdit(r, message_id, user_id, content) ==
    /\ task[r].pc = "idle" /\ task[r].request = "none"
    /\ Commit([Pack EXCEPT !.task[r].request = "edit", !.task[r].current_user = user_id,
                           !.task[r].message_id = message_id, !.task[r].content = content,
                           !.task[r].pc = "get_message"])

\* delete_message_endpoint: message = await delete_message(db, message_id,
\* current_user.id), up to delete_message's await of get_message_by_id
CallDelete(r, message_id, user_id) ==
    /\ task[r].pc = "idle" /\ task[r].request = "none"
    /\ Commit([Pack EXCEPT !.task[r].request = "delete", !.task[r].current_user = user_id,
                           !.task[r].message_id = message_id,
                           !.task[r].pc = "get_message"])

\* if not message: raise HTTPException(status_code=404)
NotFound(G, r) == [G EXCEPT !.task[r].pc = "done", !.task[r].response = "404"]

\* update_message from the row it was given to its await of db.flush()
update_message(G, r, message) ==
    IF message = NoMessage THEN NotFound(G, r)
    ELSE IF message.user_id # G.task[r].current_user THEN NotFound(G, r)
    ELSE IF message.is_deleted THEN NotFound(G, r)
    ELSE [G EXCEPT !.task[r].message = [message EXCEPT !.content = G.task[r].content,
                                                       !.updated_at = now],
                   !.task[r].pc = "flush"]

\* delete_message from the row it was given to its await of db.flush()
delete_message(G, r, message) ==
    IF message = NoMessage THEN NotFound(G, r)
    ELSE IF message.user_id # G.task[r].current_user THEN NotFound(G, r)
    ELSE IF message.is_deleted THEN NotFound(G, r)
    ELSE [G EXCEPT !.task[r].message = [message EXCEPT !.is_deleted = TRUE],
                   !.task[r].pc = "flush"]

\* message = await get_message_by_id(db, message_id) returned
GetMessageDone(r) ==
    /\ task[r].pc = "get_message"
    /\ LET message == get_message_by_id(db, task[r].message_id)
       IN  Commit(IF task[r].request = "edit" THEN update_message(Pack, r, message)
                  ELSE delete_message(Pack, r, message))

\* db.flush(): UPDATE messages SET <the columns assigned> WHERE id = message.id
Flush(rows, f) ==
    { IF m.id # f.message.id THEN m
      ELSE IF f.request = "edit"
           THEN [m EXCEPT !.content = f.message.content, !.updated_at = f.message.updated_at]
           ELSE [m EXCEPT !.is_deleted = TRUE] : m \in rows }

\* manager.broadcast_to_all({"event": "message_edited" or "message_deleted", ...})
BroadcastChange(G, r) ==
    BroadcastToAll(CallOp([G EXCEPT !.task[r].payload = G.task[r].message], r,
                          "broadcast_to_all", NoUser, NoUser,
                          IF G.task[r].request = "edit" THEN "message_edited"
                          ELSE "message_deleted", "response"), r)

\* await db.flush() returned, and db.refresh(message) after it, which ends
\* update_message or delete_message with the message: the endpoint broadcasts
\* the change; or the flush raised, and the request fails
FlushDone(r, ok) ==
    /\ task[r].pc = "flush"
    /\ Commit(IF ok
              THEN LET rows == Flush(db, task[r])
                   IN  BroadcastChange([Pack EXCEPT !.db = rows,
                                            !.task[r].message =
                                                get_message_by_id(rows, task[r].message.id)], r)
              ELSE [Pack EXCEPT !.task[r].pc = "done", !.task[r].response = "500"])

\* the edit and delete requests, beside the connections they are broadcast to
\* (no user connects twice: the manager's lock is free whenever it is asked for)
NextEdit ==
    \/ \E t \in Conns : CallConnect(t)
    \/ \E t \in Tasks, ok \in BOOLEAN : SendDone(t, ok)
    \/ \E c \in Conns : Die(c)
    \/ \E r \in Requests, m \in MessageIds, u \in Editors, c \in EditContents : CallEdit(r, m, u, c)
    \/ \E r \in Requests, m \in MessageIds, u \in Editors : CallDelete(r, m, u)
    \/ \E r \in Requests : GetMessageDone(r)
    \/ \E r \in Requests, ok \in BOOLEAN : FlushDone(r, ok)

\* ------------------------------------------------------------ GET /messages
\* cursor: Optional[datetime] = None
NoCursor == NoExpiry
\* the row with the given number: user A's, made at created_at
PageRow(i, created_at, is_deleted) ==
    [NoMessage EXCEPT !.id = <<"a1", i>>, !.user_id = "A", !.content = 1,
                      !.created_at = created_at, !.is_deleted = is_deleted]
\* the tables that are read: up to MaxRows rows, made at times of 1..MaxStamp (two
\* sessions can create their messages at the same time), deleted or not
PageTables ==
    UNION { { {PageRow(i, at[i], del[i]) : i \in 1..n} :
                at \in [1..n -> 1..MaxStamp], del \in [1..n -> BOOLEAN] } : n \in 0..MaxRows }

\* get_messages: messages, next_cursor = await get_messages_paginated(db, limit,
\* cursor), for the first page
CallGetMessages(r, limit) ==
    /\ task[r].pc = "idle" /\ task[r].request = "none"
    /\ Commit([Pack EXCEPT !.task[r].request = "get_messages", !.task[r].limit = limit,
                           !.task[r].cursor = NoCursor, !.task[r].pc = "execute"])

\* .where(Message.is_deleted == False), and .where(Message.created_at < cursor)
\* if cursor is given
Selected(rows, cursor) ==
    {m \in rows : ~m.is_deleted /\ (cursor # NoCursor => m.created_at < cursor)}

\* .order_by(desc(Message.created_at)): the orders the database may return the
\* selected rows in (rows of the same created_at come in any order)
Ordered(S) ==
    {s \in Orders(S) : \A i, j \in 1..Len(s) : i < j => s[i].created_at >= s[j].created_at}

\* .limit(limit + 1)
Limit(s, n) == IF Len(s) > n THEN SubSeq(s, 1, n) ELSE s

\* get_messages_paginated from the result of its query on: (messages, next_cursor)
Paginate(fetched, limit) ==
    IF Len(fetched) > limit
    THEN [messages |-> SubSeq(fetched, 1, limit),
          next_cursor |-> fetched[limit].created_at]
    ELSE [messages |-> fetched, next_cursor |-> NoCursor]

\* result = await db.execute(query) returned the rows in the order s: the page
\* and its next_cursor are returned, and with a next_cursor the client asks for
\* the page after it
ExecuteDone(r, s) ==
    /\ task[r].pc = "execute"
    /\ s \in Ordered(Selected(db, task[r].cursor))
    /\ LET p == Paginate(Limit(s, task[r].limit + 1), task[r].limit)
       IN  Commit([Pack EXCEPT !.task[r].messages = p.messages,
                               !.task[r].next_cursor = p.next_cursor,
                               !.task[r].pages = Append(@, p.messages),
                               !.task[r].cursor = p.next_cursor,
                               !.task[r].pc = IF p.next_cursor = NoCursor THEN "done"
                                              ELSE "execute"])

\* one client reads the whole history, page by page
NextPage ==
    \/ \E limit \in 1..MaxLimit : CallGetMessages("r1", limit)
    \/ \E s \in Ordered(Selected(db, task["r1"].cursor)) : ExecuteDone("r1", s)

\* --------------------------------------------------------------- OTPService
\* store_otp: await self.redis.setex(key, self.otp_expiry, otp) sets the key, and
\* True is returned; or it raises, and False is returned. The value is kept with
\* the number of the store_otp call that wrote it.
StoreOtp(t, email, code, ok) ==
    /\ CanCall(t)
    /\ Commit(Called(IF ok
                     THEN [Pack EXCEPT !.otp[email] = [code |-> code, gen |-> hist.stored + 1],
                                       !.hist.stored = @ + 1,
                                       !.task[t].ret = "True"]
                     ELSE [Pack EXCEPT !.task[t].ret = "False"], t))

\* the key's time to live (otp_expiry) has run out
OtpExpire(email) ==
    /\ otp[email] # NoOtp
    /\ Commit([Pack EXCEPT !.otp[email] = NoOtp])

\* verify_otp(email, code), up to stored_otp = await self.redis.get(key)
CallVerify(r, email, code) ==
    /\ task[r].pc = "idle" /\ task[r].n < MaxCalls
    /\ Commit(Called([Pack EXCEPT !.task[r].request = "verify_otp", !.task[r].email = email,
                                  !.task[r].otp = code, !.task[r].stored_otp = NoOtp,
                                  !.task[r].ret = "none", !.task[r].pc = "otp_get"], r))

\* verify_otp returns
VerifyReturn(G, r, value) ==
    [G EXCEPT !.task[r].pc = "idle", !.task[r].ret = value,
              !.hist.verified = IF value = "True" THEN Append(@, G.task[r].stored_otp.gen)
                                ELSE @]

\* if stored_otp == otp: await self.redis.delete(key)
VerifyMatch(G, r) == [G EXCEPT !.task[r].pc = "otp_delete"]

\* redis.get returned the key's value, or raised
GetOtpDone(r, ok) ==
    /\ task[r].pc = "otp_get"
    /\ LET stored_otp == otp[task[r].email]
           G == [Pack EXCEPT !.task[r].stored_otp = stored_otp]
       IN  Commit(IF ~ok THEN VerifyReturn(Pack, r, "False")
                  ELSE IF stored_otp = NoOtp THEN VerifyReturn(G, r, "False")
                  ELSE IF stored_otp.code = task[r].otp THEN VerifyMatch(G, r)
                  ELSE VerifyReturn(G, r, "False"))

\* redis.delete(key) removed the key, whatever it holds by now, and True is
\* returned; or it raised, and False is returned
DeleteOtpDone(r, ok) ==
    /\ task[r].pc = "otp_delete"
    /\ Commit(IF ok
              THEN VerifyReturn([Pack EXCEPT !.otp[task[r].email] = NoOtp], r, "True")
              ELSE VerifyReturn(Pack, r, "False"))

\* codes are stored and verified
NextOtp ==
    \/ \E t \in Workers, e \in Emails, c \in OtpCodes, ok \in BOOLEAN : StoreOtp(t, e, c, ok)
    \/ \E e \in Emails : OtpExpire(e)
    \/ \E r \in Requests, e \in Emails, c \in OtpCodes : CallVerify(r, e, c)
    \/ \E r \in Requests, ok \in BOOLEAN : GetOtpDone(r, ok)
    \/ \E r \in Requests, ok \in BOOLEAN : DeleteOtpDone(r, ok)

\* --------------------------------------------------------- specifications
\* the rate limiter beside an application without websockets
InitLimiter == InitRL /\ InitNoConns
\* the connection manager with an empty rate-limit store
InitManager == InitRL /\ InitMgr
\* the server
InitServer == InitSessRL /\ InitSess
\* the server with the connections of LifeScenarios
InitLife == InitRL /\ InitApp("new", LifeScenarios)
\* the server with two users, and an empty rate-limit store
InitOrder == InitRL /\ InitApp("new", PresScenarios)
\* the server with a user who connects twice, and an empty rate-limit store
InitSetup == InitRL /\ InitApp("new", StaleScenarios)
\* the server with a user who connects twice
InitStale == InitSessRL /\ InitApp("new", StaleScenarios)
\* the presence service, with the tasks that call it
InitPresence == InitRL /\ InitApp("idle", PresScenarios)

\* two requests against a table of two messages, with two users connected
InitEdit == InitRL /\ InitWith("idle", PresScenarios, RestRows)

\* a table of messages, and no connection
InitPage == InitRL /\ \E rows \in PageTables : InitWith("idle", {{}}, rows)

\* no code stored, no connection
InitOtp == InitRL /\ InitApp("idle", {{}})

\* the rate limiter in one process
SpecRL == InitLimiter /\ [][NextRL]_vars
\* the rate limiter run by two processes
SpecRLConc == InitLimiter /\ [][NextRLConc]_vars
\* the connection manager under arbitrary callers
SpecMgr == InitManager /\ [][NextMgr]_vars
\* the websocket sessions of the server
Spec == InitServer /\ [][NextSess]_vars
\* the sessions' coming and going
SpecLife == InitLife /\ [][NextLife]_vars
\* the message history, read page by page
SpecPage == InitPage /\ [][NextPage]_vars
\* the one-time passwords
SpecOtp == InitOtp /\ [][NextOtp]_vars
\* the edit and delete endpoints
SpecEdit == InitEdit /\ [][NextEdit]_vars
\* two sessions that send several messages each
SpecOrder == InitOrder /\ [][NextOrder]_vars
\* the sessions of a user, with a presence service that can fail
SpecSetup == InitSetup /\ [][NextSetup]_vars
\* the sessions of a user whose presence record can expire
SpecStale == InitStale /\ [][NextStale]_vars
\* the presence service under arbitrary callers
SpecPres == InitPresence /\ [][NextPres]_vars

\* ------------------------------------------------------------------ claims
\* the number of accepted calls whose timestamp lies in the window (t - W, t]
AcceptedIn(t) == Len(SelectSeq(winAcc, LAMBDA x : x > t - W /\ x <= t))

\* C2: a call is accepted exactly when fewer than max_requests calls were
\* accepted before it in the 5-second window that ends at it (the first five of
\* a window pass, the sixth is rejected), so no window ever holds more than
\* max_requests accepted calls -- calls made at one clock value included.
C2_FiveThenReject ==
    /\ lastCall.fresh => (lastCall.ok <=> lastCall.before < max_requests)
    /\ \A t \in 0..MaxTime : AcceptedIn(t) <= max_requests

\* C3: a check made at least W after the most recent accepted call is accepted,
\* and after any check no recorded timestamp is W old or older (one exactly W
\* old has been purged and does not count).
C3_AcceptedAfterWindow ==
    lastCall.fresh =>
        /\ (lastCall.prevAcc >= 0 /\ now - lastCall.prevAcc >= W) => lastCall.ok
        /\ \A m \in store[TheKey] : m.score > now - W

C3_Witness ==
    /\ lastCall.fresh /\ lastCall.ok /\ lastCall.wasLimited
    /\ now - lastCall.prevAcc = W

\* C4: a rejected call adds no timestamp and leaves the record's expiry as it
\* was, and every later check gives the outcome it gives in the run from which
\* the rejected call is left out.
C4_RejectNoEffect ==
    /\ [](lastCall.fresh /\ lastCall.both => lastCall.ok = lastCall.shOk)
    /\ [][(lastCall'.fresh /\ ~lastCall'.ok) =>
            /\ store'[TheKey] \subseteq store[TheKey]
            /\ expiry'[TheKey] = expiry[TheKey]]_vars

C4_Witness ==
    /\ shSkipped /\ lastCall.fresh /\ lastCall.both /\ lastCall.ok
    /\ lastCall.wasLimited

\* C5: with two processes interleaving their store commands, no 5-second window
\* holds more than max_requests accepted calls.
C5_LimitAcrossProcesses ==
    \A t \in 0..MaxTimeConc : AcceptedIn(t) <= max_requests

Recipients(t) ==
    {task[t].snap[i][2] : i \in {j \in 1..Len(task[t].snap) : task[t].snap[j][1] # task[t].excl}}

\* C6: a broadcast never sends to a connection of the excluded user, and when
\* it returns it has attempted every connection of its snapshot other than the
\* excluded user's, whichever sends failed.
C6_BroadcastAllButExcluded ==
    \A t \in Tasks :
        task[t].op = "broadcast_to_all" =>
            /\ \A c \in task[t].sent : Owner(c) # task[t].excl
            /\ task[t].pc = "idle" => task[t].sent = Recipients(t)

C6_Witness ==
    \E t \in Tasks :
        /\ task[t].op = "broadcast_to_all" /\ task[t].pc = "idle"
        /\ task[t].excl \in DictKeys(task[t].snap)
        /\ \E i, j \in 1..Len(task[t].snap) :
              /\ i < j
              /\ task[t].snap[i][1] # task[t].excl /\ task[t].snap[j][1] # task[t].excl
              /\ task[t].snap[i][2] \in task[t].failed
              /\ task[t].snap[j][2] \in task[t].sent

\* C7: when a send fails in send_to_user or broadcast_to_all, the registry entry
\* that is removed is that of the connection whose send failed, and no other.
C7_EvictsOnlyTheFailedConnection ==
    hist.evict.by \in {"send_to_user", "broadcast_to_all"} =>
        hist.evict.removed \in {NoConn, hist.evict.failed}

\* C8: send_to_user returns True or False: False with the registry untouched
\* when the user has no entry, True when the send succeeded, and after a failed
\* send (one attempt, no retry) False with the user's entry gone.
C8_SendToUserOutcome ==
    [][\A t \in Tasks :
        (task'[t] # task[t] /\ task'[t].pc = "idle" /\ task'[t].op = "send_to_user") =>
            /\ task'[t].ret \in {"True", "False"}
            /\ Cardinality(task'[t].sent) <= 1
            /\ task'[t].sent = {} =>
                  /\ task'[t].ret = "False"
                  /\ ~DictHas(active_connections, task'[t].user)
                  /\ active_connections' = active_connections
            /\ (task'[t].sent # {} /\ task'[t].failed = {}) =>
                  /\ task'[t].ret = "True"
                  /\ active_connections' = active_connections
            /\ task'[t].failed # {} =>
                  /\ task'[t].ret = "False"
                  /\ ~DictHas(active_connections', task'[t].user)]_vars

C8_Witness ==
    \E t \in Tasks :
        /\ task[t].op = "send_to_user" /\ task[t].pc = "idle"
        /\ task[t].ret = "False" /\ task[t].failed # {}
        /\ task[t].n = MaxCalls

\* C9: whenever a session whose connection is open (the client has not left
\* and the server has not closed it) has had a send_message accepted and
\* persisted and its new_message broadcast has finished, a send of that
\* new_message event was made to the sender's own connection.
C9_NewMessageReachesSender ==
    \A t \in Conns :
        (/\ task[t].pc = "receive" /\ task[t].inev = "send_message"
         /\ task[t].ev = "new_message"
         /\ t \notin dead \cup closeCalled) =>
            t \in task[t].sent

\* C10: while a session handles a typing event, its user_typing event is sent
\* to no connection of the same user; when the handling is over it has been
\* sent to every connection that was registered for another user; and the step
\* that handles the event touches neither the rate-limit records nor the
\* message store.
C10_TypingNotToSender ==
    /\ [](\A t \in Conns :
            task[t].inev = "typing" =>
                /\ \A c \in task[t].sent : Owner(c) # Owner(t)
                /\ ~task[t].didRL /\ ~task[t].didDB
                /\ task[t].ev \in {"user_typing", "none"}
                /\ task[t].pc = "receive" =>
                      \A i \in 1..Len(task[t].snap) :
                          task[t].snap[i][1] # Owner(t) => task[t].snap[i][2] \in task[t].sent)
    /\ [][\A t \in Conns :
            (task'[t].inev = "typing" /\ task'[t].n # task[t].n) =>
                /\ store' = store /\ expiry' = expiry /\ db' = db
                /\ task'[t].op = "broadcast_to_all" /\ task'[t].excl = Owner(t)]_vars

C10_Witness ==
    \E t \in Conns :
        /\ task[t].inev = "typing" /\ task[t].pc = "receive"
        /\ DictGet(task[t].snap, Owner(t)) = t
        /\ task[t].sent # {}

\* C11: a new_message event is sent only for a message that is committed, and
\* the event carries the id, author, content and timestamp of the committed row.
C11_PersistBeforeBroadcast ==
    \A t \in Conns :
        (task[t].ev = "new_message" /\ task[t].sent # {}) =>
            /\ \E m \in db : /\ task[t].payload.id = m.id
                             /\ task[t].payload.created_at = m.created_at
                             /\ task[t].payload.user_id = m.user_id
                             /\ task[t].payload.content = m.content
            /\ task[t].payload.id = <<t, task[t].n>>

C11_Witness ==
    \E t \in Conns :
        /\ task[t].ev = "new_message" /\ task[t].pc = "sending"
        /\ task[t].target # t
        /\ task[t].payload \in db

\* the session of connection t is handling, or has handled, a send_message
\* whose trimmed content has len characters
SendMessageOf(t, len) ==
    /\ task[t].inev = "send_message"
    /\ task[t].data.core = len

\* the connection of t is open: the client has not left, the server has not
\* closed it
Open(t) == t \notin dead \cup closeCalled

\* C12: a send_message of exactly MaxContent characters after trimming goes on
\* to the rate limiter; one of MaxContent + 1 characters makes no rate-limiter
\* check, no persistence call and no new_message broadcast, the session stays
\* in its loop, and when its handling is over an error event has been sent to
\* the sender's open connection.
C12_LengthBoundary ==
    \A t \in Conns :
        /\ SendMessageOf(t, MaxContent) => task[t].didRL
        /\ SendMessageOf(t, MaxContent + 1) =>
              /\ ~task[t].didRL /\ ~task[t].didDB
              /\ task[t].ev \in {"none", "error"}
              /\ task[t].k = "loop"
              /\ (task[t].pc = "receive" /\ Open(t)) =>
                    /\ task[t].ev = "error"
                    /\ task[t].sent = {t}

\* C13: when the rate limiter has rejected a send_message, nothing is persisted
\* or broadcast, the session stays in its loop, no event is sent to another
\* user's connection, and when the handling is over an error event has been
\* sent to the sender's open connection; the step that makes the check leaves
\* the registry, the presence records and the rate-limit records as they were.
C13_RateLimitedErrorOnly ==
    /\ [](\A t \in Conns :
            (task[t].inev = "send_message" /\ task[t].didRL /\ ~task[t].didDB) =>
                /\ task[t].ev \in {"none", "error"}
                /\ task[t].k = "loop"
                /\ \A c \in task[t].sent : Owner(c) = Owner(t)
                /\ (task[t].pc = "receive" /\ Open(t)) =>
                      /\ task[t].ev = "error"
                      /\ task[t].sent = {t})
    /\ [][\A t \in Conns :
            (task'[t].n # task[t].n /\ task'[t].didRL /\ ~task'[t].didDB) =>
                /\ active_connections' = active_connections
                /\ online' = online /\ udata' = udata /\ db' = db
                /\ store' = store /\ expiry' = expiry]_vars

\* C14: a send_message whose content is empty after trimming is dropped: no
\* rate-limiter check, no persistence call, no event sent to anyone, the
\* session back at its receive; and the step that handles it changes nothing
\* but the handling session's own frame.
C14_EmptyDropped ==
    /\ [](\A t \in Conns :
            SendMessageOf(t, 0) =>
                /\ ~task[t].didRL /\ ~task[t].didDB
                /\ task[t].sent = {} /\ task[t].ev = "none"
                /\ task[t].pc = "receive" /\ task[t].k = "loop")
    /\ [][\A t \in Conns :
            (task'[t].n # task[t].n /\ task'[t].inev = "send_message" /\ task'[t].data.core = 0) =>
                /\ store' = store /\ expiry' = expiry /\ db' = db
                /\ active_connections' = active_connections
                /\ online' = online /\ udata' = udata
                /\ \A u \in Tasks \ {t} : task'[u] = task[u]]_vars

C14_Witness ==
    \E t \in Conns :
        /\ SendMessageOf(t, 0) /\ task[t].data.pad = 1
        /\ task[t].n = 1 /\ task[t].pc = "receive"

\* C15: a handshake whose token does not decode, names no user or names an
\* inactive user is closed with the policy-violation code and goes no further:
\* the connection is never registered, none of its events is dispatched,
\* nothing is sent or broadcast for it, and no step of its handler changes the
\* registry, the presence records, the messages or the rate-limit records.
C15_AuthFailureNoState ==
    /\ [](\A t \in Conns :
            task[t].auth \in AuthResults \ {"ok"} =>
                /\ task[t].pc \in {"reject", "done"}
                /\ task[t].code = WS_1008_POLICY_VIOLATION
                /\ t \notin hist.everReg
                /\ t \notin DictValues(active_connections)
                /\ task[t].n = 0 /\ task[t].sent = {}
                /\ task[t].op = "none" /\ task[t].ev = "none")
    /\ [][\A t \in Conns :
            (task'[t] # task[t] /\ task'[t].auth \in AuthResults \ {"ok"}) =>
                /\ active_connections' = active_connections
                /\ online' = online /\ udata' = udata /\ db' = db
                /\ store' = store /\ expiry' = expiry
                /\ \A u \in Tasks \ {t} : task'[u] = task[u]]_vars

C15_Witness ==
    \E t, u \in Conns :
        /\ task[t].auth = "inactive" /\ task[t].pc = "done"
        /\ task[u].auth = "ok" /\ task[u].pc = "receive"

\* what a handler does on the way into its receive loop, in order
JoinSteps == <<"registered", "presence", "broadcast", "joined">>

IsPrefix(s, r) == Len(s) <= Len(r) /\ \A i \in 1..Len(s) : s[i] = r[i]

\* C16: a handler registers its connection, then adds the presence record,
\* then broadcasts user_joined, and dispatches its first inbound event only
\* after that broadcast has returned; user_joined is sent to no connection of
\* the joining user and, when the broadcast has returned, has been sent to the
\* connection of every other user registered when it began.
C16_JoinOrder ==
    \A t \in Conns :
        /\ \/ IsPrefix(task[t].steps, JoinSteps)
           \/ IsPrefix(JoinSteps, task[t].steps)
        /\ task[t].pc \in {"sadd", "pset"} => t \in hist.everReg
        /\ task[t].n > 0 => IsPrefix(JoinSteps, task[t].steps)
        /\ task[t].ev = "user_joined" =>
              /\ task[t].n = 0
              /\ \A c \in task[t].sent : Owner(c) # Owner(t)
              /\ task[t].pc = "receive" =>
                    \A i \in 1..Len(task[t].snap) :
                        task[t].snap[i][1] # Owner(t) => task[t].snap[i][2] \in task[t].sent

C16_Witness ==
    \E t \in Conns :
        /\ task[t].ev = "user_joined" /\ task[t].pc = "receive"
        /\ DictGet(task[t].snap, Owner(t)) = t
        /\ task[t].sent # {}

\* the handler of connection c has accepted it and has not begun its
\* user_joined broadcast
Joining(c) ==
    /\ task[c].auth = "ok"
    /\ task[c].steps \in {<< >>, <<"registered">>}

\* C17: no session's broadcast is sent to the connection of a user who is still
\* joining and has no presence record.
C17_VisibleOnlyWhenActive ==
    \A s, c \in Conns :
        (/\ s # c
         /\ task[s].pc = "sending" /\ task[s].op = "broadcast_to_all"
         /\ task[s].target = c) =>
            ~(Joining(c) /\ Owner(c) \notin online /\ Owner(c) \notin udata)

\* what a handler does from the end of its receive loop to its return, in order
LeaveSteps == <<"teardown", "unregistered", "srem", "delete", "broadcast_left", "left">>

Count(s, x) == Cardinality({i \in 1..Len(s) : s[i] = x})
Last(s) == s[Len(s)]

ReadStep(t) == task[t].op = "get_online_users" /\ task'[t] # task[t]

\* C20: get_online_users never returns a user-id whose username key is missing
\* when the read looks it up, and the read removes every such user-id from the
\* online set; a user-id whose username is there is returned, and the read
\* leaves it in the set. What the read returns and what it removes are
\* disjoint, and together they are the user-ids the read enumerated.
C20_SelfHealingRead ==
    /\ [](\A t \in Workers : task[t].op = "get_online_users" =>
            /\ task[t].result \cap task[t].removed = {}
            /\ task[t].result \cup task[t].removed \subseteq task[t].enum
            /\ (task[t].pc = "idle" => task[t].result \cup task[t].removed = task[t].enum))
    /\ [][\A t \in Workers :
            /\ (ReadStep(t) /\ task[t].pc = "get" /\ task[t].cur \in udata) =>
                   /\ task[t].cur \in task'[t].result
                   /\ task'[t].removed = task[t].removed
                   /\ online' = online
            /\ (ReadStep(t) /\ task[t].pc = "get" /\ task[t].cur \notin udata) =>
                   /\ task'[t].result = task[t].result
                   /\ task'[t].pc = "srem_stale"
            /\ (ReadStep(t) /\ task[t].pc = "srem_stale") =>
                   /\ task[t].cur \notin online'
                   /\ task[t].cur \in task'[t].removed
                   /\ task'[t].result = task[t].result
            /\ (ReadStep(t) /\ task[t].pc \notin {"srem_stale", "idle"}) =>
                   /\ online' = online]_vars

\* a read has returned one user and removed another, stale one
C20_Witness ==
    \E t \in Workers :
        /\ task[t].op = "get_online_users" /\ task[t].pc = "idle"
        /\ task[t].result # {} /\ task[t].removed # {}
        /\ task[t].removed \cap online = {}

\* the session of t has left: its handler has run its finally block to the end
Left(t) == task[t].pc = "done" /\ task[t].why # "none"

\* the session of c is in its receive loop on an open websocket
StillConnected(c) ==
    /\ task[c].k = "loop" /\ task[c].why = "none" /\ Open(c)
    /\ task[c].steps # << >> /\ Last(task[c].steps) = "joined"

\* C19: when the session of a user B has left, every connection of another user
\* that was connected when B's session began to leave and still is has been
\* sent B's user_left; B's own connection is never sent it; and, B having no
\* other connection, B is not in the online set that a get_online_users call
\* enumerates from then on.
C19_Leave ==
    \A t \in hist.conns :
        /\ Left(t) =>
              \A c \in task[t].peers : StillConnected(c) => c \in task[t].sent
        /\ task[t].ev = "user_left" => (t \notin task[t].sent /\ task[t].target # t)
        /\ (Left(t) /\ \A c \in hist.conns \ {t} : Owner(c) # Owner(t)) =>
              (Owner(t) \notin online /\ Owner(t) \notin udata)

\* task t has made one presence call, add_user_presence, and it has returned;
\* the username key it wrote is there: nobody removed the user, no key expired
AddedOnce(t) ==
    /\ t \in hist.conns
    /\ task[t].op = "add_user_presence" /\ task[t].pc = "idle" /\ task[t].n = 1
    /\ Owner(t) \in udata

\* C21: when add_user_presence for a user and the get_online_users calls that
\* ran beside it have all returned, and the user was not removed and the
\* username key did not expire, the user is in the online set (from which the
\* next get_online_users reads).
C21_AddSurvivesRead ==
    \A t \in Conns :
        (AddedOnce(t) /\ \A w \in Workers : task[w].pc = "idle") => Owner(t) \in online

\* task t, a caller of the presence service, completes the await it is parked at
PresenceStep(t, pc) == task[t].k = "caller" /\ task[t].pc = pc /\ task'[t] # task[t]

\* C22: add_user_presence puts the user in the online set and sets the user's
\* username key, remove_user_presence takes both away; on a user who is
\* already there (for add) or not there (for remove) the step changes
\* nothing, and no step changes the presence of any other user.
C22_PresenceIdempotent ==
    [][\A t \in Conns :
          LET u == task[t].user
          IN  /\ PresenceStep(t, "sadd") =>
                    /\ online' = online \cup {u} /\ udata' = udata
                    /\ u \in online => online' = online
              /\ PresenceStep(t, "pset") =>
                    /\ udata' = udata \cup {u} /\ online' = online
                    /\ u \in udata => udata' = udata
              /\ PresenceStep(t, "srem") =>
                    /\ online' = online \ {u} /\ udata' = udata
                    /\ u \notin online => online' = online
              /\ PresenceStep(t, "pdel") =>
                    /\ udata' = udata \ {u} /\ online' = online
                    /\ u \notin udata => udata' = udata]_vars

\* a second add_user_presence has inserted a user who is already present, and a
\* remove_user_presence is at work on a user who is absent
C22_Witness ==
    \E s, t \in hist.conns :
        /\ task[s].op = "add_user_presence" /\ task[s].n = 2 /\ task[s].pc = "pset"
        /\ Owner(s) \in online /\ Owner(s) \in udata
        /\ task[t].op = "remove_user_presence" /\ task[t].pc = "pdel"
        /\ Owner(t) \notin online /\ Owner(t) \notin udata

\* C23: when a session's broadcast has returned, it has sent to every
\* connection of its snapshot but the excluded user's, whichever sends failed,
\* and every peer whose send failed (a user with no other connection) has no
\* registry entry and no presence record.
C23_FailedPeerEvicted ==
    \A t \in Conns :
        (task[t].op = "broadcast_to_all" /\ task[t].pc \in {"receive", "done"}) =>
            /\ task[t].sent = Recipients(t)
            /\ \A c \in task[t].failed \ {t} :
                  (\A d \in hist.conns \ {c} : Owner(d) # Owner(c)) =>
                      /\ ~DictHas(active_connections, Owner(c))
                      /\ Owner(c) \notin online
                      /\ Owner(c) \notin udata

\* the session of t is in its receive loop, waiting for the next event
Active(t) == task[t].pc = "receive" /\ task[t].k = "loop" /\ task[t].why = "none"

\* create_message or commit raises in the session of t: the step leaves that
\* await without a Message row, or without the row persisted, and is not a
\* cancellation
PersistFails(t) ==
    /\ task'[t] # task[t] /\ task'[t].steps = task[t].steps
    /\ \/ task[t].pc = "db_create" /\ task'[t].message = NoMessage
       \/ task[t].pc = "db_commit" /\ db' = db

\* C24: when create_message or commit raises, the session made no send for this
\* send_message and makes none: it rolls back and is back in its receive loop,
\* waiting for the next event, with no event sent to anyone, the message not
\* among the persisted ones, and registry, presence and every other session
\* as they were.
C24_PersistFailureDropped ==
    /\ [](\A t \in Conns : task[t].pc = "db_rollback" =>
             /\ task[t].sent = {} /\ task[t].ev = "none"
             /\ \A m \in db : m.id # <<t, task[t].n>>)
    /\ [][\A t \in Conns :
            /\ PersistFails(t) =>
                  /\ task'[t].pc = "db_rollback"
                  /\ task'[t].sent = {} /\ task'[t].ev = "none"
                  /\ db' = db /\ active_connections' = active_connections
                  /\ online' = online /\ udata' = udata
                  /\ \A s \in Tasks \ {t} : task'[s] = task[s]
            /\ (/\ task[t].pc = "db_rollback" /\ task'[t] # task[t]
                /\ task'[t].steps = task[t].steps) =>
                  /\ Active(t)' /\ task'[t].sent = {} /\ task'[t].ev = "none"
                  /\ db' = db /\ active_connections' = active_connections
                  /\ online' = online /\ udata' = udata
                  /\ \A s \in Tasks \ {t} : task'[s] = task[s]]_vars

\* a commit has failed and been rolled back beside another joined session: the
\* sender is back in its loop and nothing was sent
C24_Witness ==
    \E t, s \in hist.conns :
        /\ s # t /\ Active(s) /\ Open(s) /\ Open(t)
        /\ Active(t) /\ task[t].inev = "send_message" /\ task[t].didDB
        /\ task[t].message # NoMessage /\ task[t].message \notin db
        /\ task[t].sent = {}

\* the session of c is not at work: it has not begun, it waits for the next
\* event on an open websocket, or its handler has returned
AtRest(c) ==
    \/ task[c].pc \in {"new", "done", "idle"}
    \/ Active(c) /\ Open(c)

\* C25: when every session is at rest (none in its setup, in the handling of an
\* event, or in its teardown, and none about to find its websocket gone), every
\* user in the online set with a stored username has a registry entry.
C25_PresenceHasConnection ==
    (\A c \in Conns : AtRest(c)) =>
        \A u \in Users : (u \in online /\ u \in udata) => DictHas(active_connections, u)

\* get_online_users lists user u: u is in the online set and has a username
Listed(u) == u \in online /\ u \in udata

\* C26: a connected user is listed by get_online_users when the handling of a
\* message they sent is over (the new_message broadcast has returned), whether
\* or not their username key had expired before, and when they have reconnected
\* (the new session has joined, the one it replaced has left).
C26_RelistedAfterMessageOrReconnect ==
    /\ [][\A t \in hist.conns :
            (/\ task[t].pc = "sending" /\ task[t].ev = "new_message"
             /\ Active(t)' /\ Open(t)'
             /\ \A d \in hist.conns \ {t} : Owner(d) = Owner(t) => task[d].pc = "new")
               => Listed(Owner(t))']_vars
    /\ [](\A t \in hist.conns :
            (/\ Active(t) /\ Open(t) /\ Last(task[t].steps) = "joined"
             /\ \E d \in hist.conns \ {t} : Owner(d) = Owner(t) /\ Left(d))
               => Listed(Owner(t)))

\* registry, presence, rate windows and persisted messages are as they were,
\* and so is every task but t
OnlyTaskChanges(t) ==
    /\ active_connections' = active_connections
    /\ online' = online /\ udata' = udata
    /\ store' = store /\ expiry' = expiry
    /\ db' = db
    /\ \A s \in Tasks \ {t} : task'[s] = task[s]

\* the session of t receives an event with this tag
Receives(t, event) ==
    task[t].pc = "receive" /\ task'[t].n = task[t].n + 1 /\ task'[t].inev = event

\* C27: a ping makes the session send one pong, on its own connection and on no
\* other; when the send has returned the session is back in its loop; neither
\* step changes registry, presence, rate windows or persisted messages, and no
\* rate-limit check or persistence call is made.
C27_PingPong ==
    /\ [](\A t \in Conns : task[t].inev = "ping" =>
             /\ task[t].ev = "pong" /\ task[t].sent = {t} /\ task[t].target = t
             /\ task[t].pc \in {"sending", "receive"}
             /\ ~task[t].didRL /\ ~task[t].didDB)
    /\ [][\A t \in Conns :
            /\ Receives(t, "ping") =>
                  /\ task'[t].pc = "sending" /\ task'[t].sent = {t}
                  /\ OnlyTaskChanges(t)
            /\ (/\ task[t].inev = "ping" /\ task[t].pc = "sending"
                /\ task'[t] # task[t] /\ task'[t].steps = task[t].steps) =>
                  /\ Active(t)' /\ task'[t].sent = {t}
                  /\ OnlyTaskChanges(t)]_vars

\* a pong has been sent beside another joined session, which was sent nothing
C27_Witness ==
    \E t, s \in hist.conns :
        /\ s # t /\ Active(s) /\ Open(s) /\ Last(task[s].steps) = "joined"
        /\ DictGet(active_connections, Owner(s)) = s
        /\ Active(t) /\ task[t].inev = "ping" /\ task[t].sent = {t}

\* C28: an event with an unrecognized tag makes the session send nothing and
\* change nothing: in the step that receives it the session is back in its
\* loop, waiting for the next event, with registry, presence, rate windows,
\* persisted messages and every other task unchanged.
C28_UnknownIgnored ==
    /\ [](\A t \in Conns : task[t].inev = "unknown" =>
             /\ task[t].ev = "none" /\ task[t].sent = {}
             /\ Active(t) /\ ~task[t].didRL /\ ~task[t].didDB)
    /\ [][\A t \in Conns :
            Receives(t, "unknown") => (Active(t)' /\ OnlyTaskChanges(t))]_vars

\* an unrecognized event has been received beside another joined session
C28_Witness ==
    \E t, s \in hist.conns :
        /\ s # t /\ Active(s) /\ Open(s) /\ Last(task[s].steps) = "joined"
        /\ DictGet(active_connections, Owner(s)) = s
        /\ Active(t) /\ Open(t) /\ task[t].inev = "unknown"

\* C29: when the close of the previously registered connection returns or
\* raises inside connect, connect stores the new connection and returns: the
\* registry maps the user to the new websocket, with one entry per user, the
\* other users' entries are as they were, and the lock is released.
C29_ConnectStoresDespiteCloseError ==
    [][\A t \in Conns :
          (task[t].op = "connect" /\ task[t].pc = "closing" /\ task'[t] # task[t]) =>
              /\ task'[t].ret \in {"closed", "swallowed"}
              /\ task'[t].pc # "closing"
              /\ DictGet(active_connections', Owner(t)) = t
              /\ DictDel(active_connections', Owner(t)) = DictDel(active_connections, Owner(t))
              /\ lock'.holder # t]_vars

\* a connect whose close of the old connection raised has returned, and the
\* registry holds the new connection
C29_Witness ==
    \E t \in hist.conns :
        /\ task[t].op = "connect" /\ task[t].pc = "idle" /\ task[t].ret = "swallowed"
        /\ DictGet(active_connections, Owner(t)) = t

\* the elements of a list
Elems(s) == {s[i] : i \in 1..Len(s)}

\* C30: the step in which a disconnect(user_id) call does its work and returns
\* leaves the registry without an entry for user_id and with every other
\* user's entry as it was; when user_id had no entry the registry is unchanged;
\* get_connected_users then returns the remaining user-ids, each once.
C30_DisconnectRemovesOnlyThatUser ==
    [][\A t \in Workers :
          (task'[t] # task[t] /\ task'[t].op = "disconnect" /\ task'[t].pc = "idle") =>
              LET user_id == task'[t].user
                  users == get_connected_users(active_connections')
              IN  /\ ~DictHas(active_connections', user_id)
                  /\ \A u \in Users \ {user_id} :
                        DictGet(active_connections', u) = DictGet(active_connections, u)
                  /\ ~DictHas(active_connections, user_id) =>
                        active_connections' = active_connections
                  /\ Elems(users) = DictKeys(active_connections) \ {user_id}
                  /\ Cardinality(Elems(users)) = Len(users)]_vars

\* a disconnect has removed the entry of a user and left another user's
C30_Witness ==
    \E t \in Workers :
        /\ task[t].op = "disconnect" /\ task[t].pc = "idle"
        /\ hist.evict.by = "disconnect" /\ hist.evict.removed # NoConn
        /\ ~DictHas(active_connections, task[t].user)
        /\ active_connections # << >>

\* the session of t makes a rate-limit check in this step
ChecksRateLimit(t) == Receives(t, "send_message") /\ task'[t].didRL

\* C31: the keys of two different (user, action) pairs are different, and a
\* step that is not a check_rate_limit call for a user leaves that user's
\* record (timestamps and expiry), and so the outcome of a check on it, as
\* they were.
C31_PerPairAccounting ==
    /\ [](\A u1, u2 \in Users, a1, a2 \in ActionNames :
             _get_key(u1, a1) = _get_key(u2, a2) => (u1 = u2 /\ a1 = a2))
    /\ [][\A u \in Users :
            LET key == _get_key(u, SendMessage)
            IN  (\A t \in Conns : Owner(t) = u => ~ChecksRateLimit(t)) =>
                    /\ store'[key] = store[key]
                    /\ expiry'[key] = expiry[key]
                    /\ CheckResult(store'[key], expiry'[key], now').ok
                         = CheckResult(store[key], expiry[key], now).ok]_vars

\* one user's check has been accepted and recorded while the record of another
\* user, whose session is in its loop and whose window is not full, is empty
C31_Witness ==
    \E s, t \in hist.conns :
        /\ Owner(s) # Owner(t)
        /\ task[s].didRL /\ task[s].didDB
        /\ store[_get_key(Owner(s), SendMessage)] # {}
        /\ Active(t) /\ store[_get_key(Owner(t), SendMessage)] = {}

\* C32: an accepted check_rate_limit sets the record's expiry to twice the
\* window after the call; a record with timestamps expires twice the window
\* after the most recent accepted call, and is gone from then on; no timestamp
\* inside the trailing window is ever in an expired record; and at every later
\* time a check gives on the record, expired or not, the outcome it would give
\* if the record never expired and its old timestamps were purged.
C32_ExpiryTwiceWindow ==
    /\ [](/\ store[TheKey] # {} => expiry[TheKey] = lastAcc + 2 * W
          /\ (lastAcc >= 0 /\ now >= lastAcc + 2 * W) =>
                LiveSet(store[TheKey], expiry[TheKey], now) = {}
          /\ \A m \in store[TheKey] :
                m.score > now - W => m \in LiveSet(store[TheKey], expiry[TheKey], now)
          /\ \A t \in now..MaxTime :
                CheckResult(store[TheKey], expiry[TheKey], t).ok
                  = CheckResult(store[TheKey], NoExpiry, t).ok)
    /\ [][(lastCall'.fresh /\ lastCall'.ok) => expiry'[TheKey] = now + 2 * W]_vars

\* a check is accepted on a record that had expired: the record holds this
\* call's timestamp alone and expires twice the window from now
C32_Witness ==
    /\ lastCall.fresh /\ lastCall.ok
    /\ lastCall.prevAcc >= 0 /\ now >= lastCall.prevAcc + 2 * W
    /\ store[TheKey] = {[member |-> StrOf(now), score |-> now]}
    /\ expiry[TheKey] = now + 2 * W

\* C33: when a user's second connection replaced the first while the first
\* session was waiting in its receive loop, and the first session's teardown is
\* over and the second session is in its loop on an open websocket, the
\* registry holds the second connection for the user and the user is in the
\* online set.
C33_ReplacedTeardownSparesNewSession ==
    \A s, t \in hist.conns :
        (/\ s # t /\ Owner(s) = Owner(t)
         /\ s \in hist.replacedActive /\ Left(s)
         /\ Active(t) /\ Open(t) /\ Last(task[t].steps) = "joined") =>
            /\ DictGet(active_connections, Owner(t)) = t
            /\ Owner(t) \in online

\* C34: every session that waits in its receive loop on an open websocket has
\* its own connection registered under its user-id.
C34_ActiveIsRegistered ==
    \A t \in hist.conns :
        (Active(t) /\ Open(t)) => DictGet(active_connections, Owner(t)) = t

\* C35: once a session's handler has ended, whichever way, the registry does
\* not hold that session's connection.
C35_NoEntryOutlivesHandler ==
    \A t \in hist.conns :
        task[t].pc = "done" => DictGet(active_connections, Owner(t)) # t

Succeeds(r) ==
    task[r].pc = "flush" /\ task'[r].pc # "flush" /\ task'[r].response # "500"

\* the request r is denied
Denied(r) == task[r].pc = "get_message" /\ task'[r].response = "404"

\* a request that broadcasts message_edited or message_deleted holds the message
\* its update_message or delete_message returned
BroadcastAfterSuccess ==
    \A r \in Requests :
        task[r].ev \in {"message_edited", "message_deleted"} =>
            /\ task[r].message # NoMessage
            /\ task[r].message.id = task[r].message_id
            /\ task[r].ev = (IF task[r].request = "edit" THEN "message_edited"
                             ELSE "message_deleted")

\* a denied request changes no row and broadcasts nothing
DeniedChangesNothing ==
    \A r \in Requests :
        Denied(r) => /\ db' = db
                     /\ task'[r].ev = "none" /\ task'[r].sent = {}
                     /\ task'[r].pc = "done"

\* an update_message or delete_message succeeds only on a row that exists, is
\* owned by the requesting user and is not deleted when it is written
SucceedsOnlyOnLiveOwnMessage ==
    \A r \in Requests :
        Succeeds(r) =>
            LET m == get_message_by_id(db, task[r].message_id)
            IN  m # NoMessage /\ m.user_id = task[r].current_user /\ ~m.is_deleted

\* C37: message_edited and message_deleted are broadcast only after the update
\* or delete succeeded, on a message that exists, is owned by the requester and
\* is not deleted; a denied request changes and broadcasts nothing; no edit or
\* delete succeeds on a message that is soft-deleted.
C37_EditDeleteOnlyOnLiveMessage ==
    /\ [](BroadcastAfterSuccess)
    /\ [][DeniedChangesNothing /\ SucceedsOnlyOnLiveOwnMessage]_vars

\* the rows of all the pages a client was given, in the order it was given them
RECURSIVE Flatten(_)
Flatten(pages) == IF pages = << >> THEN << >> ELSE Head(pages) \o Flatten(Tail(pages))

\* how often the row m is among the rows of s
Times(s, m) == Cardinality({i \in 1..Len(s) : s[i] = m})

\* what one call of get_messages_paginated returns: at most limit rows, newest
\* first, none of them deleted, and a next_cursor exactly when rows that the
\* call's query selects are left out of the page
PageIsRight(r) ==
    LET page == task'[r].messages
        sel == Selected(db, task[r].cursor)
    IN  /\ Len(page) <= task[r].limit
        /\ \A i, j \in 1..Len(page) : i < j => page[i].created_at >= page[j].created_at
        /\ \A i \in 1..Len(page) : page[i] \in sel /\ Times(page, page[i]) = 1
        /\ (task'[r].next_cursor # NoCursor) <=> (Cardinality(sel) > Len(page))

\* no row is on two pages, and no deleted row is on any
NoRowTwice(r) ==
    \A i \in 1..Len(Flatten(task[r].pages)) :
        LET m == Flatten(task[r].pages)[i]
        IN  m \in db /\ ~m.is_deleted /\ Times(Flatten(task[r].pages), m) = 1

\* the client that followed next_cursor to its end was given every row that is
\* not deleted
EveryRowRead(r) ==
    task[r].pc = "done" =>
        \A m \in db : ~m.is_deleted => Times(Flatten(task[r].pages), m) = 1

\* no two rows that are not deleted have the same created_at
DistinctStamps ==
    \A m1, m2 \in db : (~m1.is_deleted /\ ~m2.is_deleted /\ m1 # m2) => m1.created_at # m2.created_at

\* C38: every page has at most limit messages, newest first, none deleted, and
\* a next_cursor exactly when more remain; the pages from the first one to the
\* one without next_cursor hold every message that is not deleted exactly once,
\* whatever the created_at of the messages.
C38_PagesCoverHistoryOnce ==
    /\ [](NoRowTwice("r1") /\ EveryRowRead("r1"))
    /\ [][task'["r1"].pages # task["r1"].pages => PageIsRight("r1")]_vars

\* no store_otp call's code has been verified twice
VerifiedOnce ==
    \A i, j \in 1..Len(hist.verified) : i # j => hist.verified[i] # hist.verified[j]

\* the verify_otp of r is given a stored code that differs from its own: it
\* returns False and the stored code stays
MismatchLeavesOtp(r) ==
    (task[r].pc = "otp_get" /\ task'[r].pc # "otp_get"
        /\ task'[r].stored_otp # NoOtp /\ task'[r].stored_otp.code # task[r].otp) =>
    (otp' = otp /\ task'[r].ret = "False" /\ hist'.verified = hist.verified)

\* the code that the verify_otp of r finds equal to its own is the one that the
\* latest store_otp wrote
MatchesLatestOnly(r) ==
    (task[r].pc = "otp_get" /\ task'[r].pc = "otp_delete") =>
    (task'[r].stored_otp.gen = hist.stored /\ task'[r].stored_otp.code = task[r].otp)

\* C39: for one store_otp at most one verify_otp returns True, also when two
\* verify_otp calls run at the same time; a verify_otp with another code returns
\* False and leaves the stored code; only the code stored last can be verified.
C39_OtpSingleUse ==
    /\ [](VerifiedOnce)
    /\ [][\A r \in Requests : MismatchLeavesOtp(r) /\ MatchesLatestOnly(r)]_vars

====
